---- MODULE Spec2Model ----
(***************************************************************************)
(* SmartEditor: the XState orchestration machine (editorMachine.ts), the   *)
(* Editor page that drives it (Editor.tsx) and the editing surface         *)
(* (ProseMirrorEditor).                                                    *)
(*                                                                         *)
(* Text is a sequence of one-character strings. A nullable value is a set: *)
(* None for null, Some(x) for x.                                           *)
(***************************************************************************)
EXTENDS Integers, Sequences, FiniteSets, TLC

VARIABLES
    value,             \* state.value of the actor: "idle" | "loadingAI" | "error"
    context,           \* state.context of the actor (EditorContext)
    activeSavedIndex,  \* useState<number | null> of the Editor page
    doc,               \* textContent of the ProseMirror document
    inflight,          \* number of apiRequest calls that have not settled yet
    localStorage,      \* value stored under STORAGE_KEY
    mounted,           \* how far the mount effects of the Editor page have run
    lastOp,            \* history: the handler or event that acted last
    loaded,            \* history: the index a session was opened at, with no clear,
                       \* delete or save since
    wire,              \* the bodies of the calls to /api/continue-writing that have
                       \* not settled yet, when the wire is observed ("bodies"),
                       \* each with whether the machine took the CONTINUE_WRITING
                       \* sent before it when that is observed too ("calls")
    server,            \* the server process: its environment and the request or call
                       \* it handled last, when the server is observed
    armed              \* delayed xstate.after.5000 events scheduled and not yet
                       \* delivered or cancelled: "this" for the one scheduled on the
                       \* latest entry into error, "earlier" for any older one

vars ==
    <<value, context, activeSavedIndex, doc, inflight, localStorage, mounted, lastOp,
      loaded, wire, server, armed>>

\* ---------------------------------------------------------------- bounds
MaxLen == 2        \* longest text the editing surface holds
MaxDocs == 2       \* most saved documents kept
MaxInflight == 2   \* most network calls outstanding at once

\* ---------------------------------------------------------------- values
None == {}
Some(x) == {x}
The(o) == CHOOSE x \in o : TRUE

\* what the user can leave in the editing surface by typing
Typed == {<<>>, <<" ">>, <<"a">>}

\* continuation field of a 200 response (<<>>: empty or missing)
Continuations == {<<>>, <<"a">>}

\* messages of a rejected apiRequest
RequestErrors == {"500: AI generation failed"}

\* Date.now() readings
Clock == {1}

AIProvider == {"gemini", "openai", "mistral"}

\* values found under STORAGE_KEY when the page is opened
Absent == [tag |-> "absent"]
Malformed == [tag |-> "malformed"]
NotArray == [tag |-> "notArray"]
Stored(items) == [tag |-> "array", items |-> items]

\* JSON null as an element of a stored array; every text is a sequence of single
\* characters, so Null is none of them
Null == <<"null">>

InitialStorage ==
    {Absent, Malformed, NotArray, Stored(<<>>), Stored(<<<<>>, <<"a">>>>), Stored(<<Null>>)}

\* ---------------------------------------------------------------- String.prototype.trim
IsSpace(c) == c = " "

RECURSIVE TrimStart(_)
TrimStart(s) == IF s # <<>> /\ IsSpace(Head(s)) THEN TrimStart(Tail(s)) ELSE s

RECURSIVE TrimEnd(_)
TrimEnd(s) ==
    IF s # <<>> /\ IsSpace(s[Len(s)]) THEN TrimEnd(SubSeq(s, 1, Len(s) - 1)) ELSE s

Trim(s) == TrimEnd(TrimStart(s))

\* ---------------------------------------------------------------- editorMachine
InitialContext ==
    [editorContent |-> <<>>,
     aiGeneratedText |-> <<>>,
     error |-> None,
     lastRequestTime |-> None,
     savedDocuments |-> <<>>,
     aiProvider |-> "gemini"]

\* guard of CONTINUE_WRITING in idle and in error
HasContentInverted(ctx) == Len(Trim(ctx.editorContent)) = 0
HasContentUntrimmed(ctx) == Len(ctx.editorContent) > 0
HasContent(ctx) == Len(Trim(ctx.editorContent)) > 0

\* savedDocuments.filter((_, idx) => idx !== index), from position idx on
RECURSIVE FilterFrom(_, _, _)
FilterFrom(docs, idx, index) ==
    IF idx >= Len(docs) THEN <<>>
    ELSE (IF idx # index THEN <<docs[idx + 1]>> ELSE <<>>) \o FilterFrom(docs, idx + 1, index)

FilterIndexClamped(docs, index) ==
    FilterFrom(docs, 0, IF index >= Len(docs) THEN Len(docs) - 1 ELSE index)
FilterIndexOneBased(docs, index) == FilterFrom(docs, 0, index - 1)
FilterIndex(docs, index) == FilterFrom(docs, 0, index)

\* savedDocuments assignment of SAVE_DOCUMENT
SaveAssignPrepend(docs, content) ==
    IF Len(Trim(content)) # 0 THEN <<content>> \o docs ELSE docs
SaveAssign(docs, content) ==
    IF Len(Trim(content)) # 0 THEN docs \o <<content>> ELSE docs

\* savedDocuments assignment of HYDRATE_SAVED: event.documents ?? []
HydrateAssignMerge(docs, documents) == docs \o documents
HydrateAssign(docs, documents) == documents

\* a snapshot of the actor
Snap(v, ctx) == [value |-> v, context |-> ctx]

NoTransition == [value |-> "none"]

\* root-level "on": handled in every state, no target
GlobalOn(ctx, event) ==
    CASE event.type = "UPDATE_CONTENT" ->
            [ctx EXCEPT !.editorContent = event.content]
      [] event.type = "SAVE_DOCUMENT" ->
            [ctx EXCEPT !.savedDocuments = SaveAssign(ctx.savedDocuments, event.content),
                        !.editorContent = <<>>]
      [] event.type = "HYDRATE_SAVED" ->
            [ctx EXCEPT !.savedDocuments = HydrateAssign(ctx.savedDocuments, event.documents)]
      [] event.type = "SWITCH_AI_PROVIDER" ->
            [ctx EXCEPT !.aiProvider = event.provider]
      [] event.type = "DELETE_DOCUMENT" ->
            [ctx EXCEPT !.savedDocuments = FilterIndex(ctx.savedDocuments, event.index)]
      [] OTHER -> ctx

\* states.idle
IdleOnTakesOutcome(ctx, event) ==
    IF event.type = "CONTINUE_WRITING" /\ HasContent(ctx)
    THEN Snap("loadingAI", ctx)
    ELSE IF event.type = "AI_ERROR"
    THEN Snap("error", [ctx EXCEPT !.error = Some(event.error)])
    ELSE NoTransition
IdleOn(ctx, event) ==
    IF event.type = "CONTINUE_WRITING" /\ HasContent(ctx)
    THEN Snap("loadingAI", ctx)
    ELSE NoTransition

\* states.loadingAI
LoadingAIOnErrorKeepsTime(ctx, event) ==
    CASE event.type = "AI_SUCCESS" ->
            Snap("idle", [ctx EXCEPT !.aiGeneratedText = event.data,
                                     !.error = None,
                                     !.lastRequestTime = Some(event.now)])
      [] event.type = "AI_ERROR" ->
            Snap("error", [ctx EXCEPT !.error = Some(event.error)])
      [] OTHER -> NoTransition
LoadingAIOnErrorForgetsText(ctx, event) ==
    CASE event.type = "AI_SUCCESS" ->
            Snap("idle", [ctx EXCEPT !.aiGeneratedText = event.data,
                                     !.error = None,
                                     !.lastRequestTime = Some(event.now)])
      [] event.type = "AI_ERROR" ->
            Snap("error", [ctx EXCEPT !.aiGeneratedText = <<>>,
                                      !.error = Some(event.error),
                                      !.lastRequestTime = Some(event.now)])
      [] OTHER -> NoTransition
LoadingAIOnResetsProvider(ctx, event) ==
    CASE event.type = "AI_SUCCESS" ->
            Snap("idle", [ctx EXCEPT !.aiGeneratedText = event.data,
                                     !.error = None,
                                     !.lastRequestTime = Some(event.now),
                                     !.aiProvider = "gemini"])
      [] event.type = "AI_ERROR" ->
            Snap("error", [ctx EXCEPT !.error = Some(event.error),
                                      !.lastRequestTime = Some(event.now)])
      [] OTHER -> NoTransition
LoadingAIOn(ctx, event) ==
    CASE event.type = "AI_SUCCESS" ->
            Snap("idle", [ctx EXCEPT !.aiGeneratedText = event.data,
                                     !.error = None,
                                     !.lastRequestTime = Some(event.now)])
      [] event.type = "AI_ERROR" ->
            Snap("error", [ctx EXCEPT !.error = Some(event.error),
                                      !.lastRequestTime = Some(event.now)])
      [] OTHER -> NoTransition

\* states.error, with its delayed transition
ErrorOnWithoutAfter(ctx, event) ==
    CASE event.type = "CONTINUE_WRITING" /\ HasContent(ctx) ->
            Snap("loadingAI", ctx)
      [] event.type = "CLEAR_ERROR" ->
            Snap("idle", [ctx EXCEPT !.error = None])
      [] OTHER -> NoTransition
ErrorOn(ctx, event) ==
    CASE event.type = "CONTINUE_WRITING" /\ HasContent(ctx) ->
            Snap("loadingAI", ctx)
      [] event.type = "CLEAR_ERROR" ->
            Snap("idle", [ctx EXCEPT !.error = None])
      [] event.type = "xstate.after.5000" ->
            Snap("idle", [ctx EXCEPT !.error = None])
      [] OTHER -> NoTransition

\* one macrostep of the actor: the transition of the active state when it has
\* one for the event, else the root-level one; the snapshot afterwards
Transition(snap, event) ==
    LET inState == CASE snap.value = "idle" -> IdleOn(snap.context, event)
                     [] snap.value = "loadingAI" -> LoadingAIOn(snap.context, event)
                     [] snap.value = "error" -> ErrorOn(snap.context, event)
    IN  IF inState # NoTransition THEN inState
        ELSE Snap(snap.value, GlobalOn(snap.context, event))

\* the delayed events of `after` across one macrostep from state `from` to state
\* `to`: leaving error cancels the event scheduled on entry, entering error
\* schedules a new one
CancelNothing(timers) == timers
Cancel(timers) == timers \ {"this"}

ScheduledRestarts(from, to, timers) ==
    LET kept == IF from = "error" /\ to # "error" THEN Cancel(timers) ELSE timers
    IN  IF to = "error" /\ from # "error"
        THEN {"this"} \cup (IF kept # {} THEN {"earlier"} ELSE {})
        ELSE IF to = "error" THEN {"restarted"}
        ELSE kept
Scheduled(from, to, timers) ==
    LET kept == IF from = "error" /\ to # "error" THEN Cancel(timers) ELSE timers
    IN  IF to = "error" /\ from # "error"
        THEN {"this"} \cup (IF kept # {} THEN {"earlier"} ELSE {})
        ELSE kept

RECURSIVE SendAll(_, _)
SendAll(snap, events) ==
    IF events = <<>> THEN snap ELSE SendAll(Transition(snap, Head(events)), Tail(events))

Snapshot == Snap(value, context)

\* events
UpdateContent(c) == [type |-> "UPDATE_CONTENT", content |-> c]
SaveDocument(c) == [type |-> "SAVE_DOCUMENT", content |-> c]
HydrateSaved(d) == [type |-> "HYDRATE_SAVED", documents |-> d]
SwitchProvider(p) == [type |-> "SWITCH_AI_PROVIDER", provider |-> p]
DeleteDocument(i) == [type |-> "DELETE_DOCUMENT", index |-> i]
ContinueWriting == [type |-> "CONTINUE_WRITING"]
AiSuccess(d, t) == [type |-> "AI_SUCCESS", data |-> d, now |-> t]
AiError(m, t) == [type |-> "AI_ERROR", error |-> m, now |-> t]
ClearError == [type |-> "CLEAR_ERROR"]
After5000 == [type |-> "xstate.after.5000"]

\* the server is not observed
NoServer == [pc |-> "unobserved"]

\* ---------------------------------------------------------------- ProseMirrorEditor handle
\* getContent(): doc.textContent
GetContent == doc

\* insertText(text): tr.insertText(text, state.doc.content.size); the text content
\* of the document afterwards
InsertText(text) == doc \o text

\* ---------------------------------------------------------------- Editor page
Ready == mounted = "ready"

Op(name) == [op |-> name, index |-> None]
OpAt(name, i) == [op |-> name, index |-> Some(i)]

\* what a handler leaves behind: the actor's snapshot, the document, the active index
Page(snap, text, active) ==
    [value |-> snap.value, context |-> snap.context, doc |-> text, active |-> active]

\* JSON.stringify(savedDocuments) written under STORAGE_KEY by the persist effect
PersistEmpty(docs) == Stored(<<>>)
Persist(docs) == Stored(docs)

\* the handler has run, the page re-renders and the persist effect runs when
\* state.context.savedDocuments changed
Commit(page) ==
    /\ value' = page.value
    /\ context' = page.context
    /\ doc' = page.doc
    /\ activeSavedIndex' = page.active
    /\ armed' = Scheduled(value, page.value, armed)
    /\ localStorage' =
          IF page.context.savedDocuments # context.savedDocuments
          THEN Persist(page.context.savedDocuments)
          ELSE localStorage

\* setContent(text) followed by the handler's own events: the document becomes
\* text and dispatchTransaction reports it (UPDATE_CONTENT) before `events`
WithContent(snap, text, events) ==
    SendAll(snap, <<UpdateContent(text)>> \o events)

\* mount, first effect: load saved sessions from localStorage
LoadSavedEffect ==
    /\ mounted = "mount"
    /\ LET next == IF localStorage.tag = "array"
                   THEN Transition(Snapshot, HydrateSaved(localStorage.items))
                   ELSE Snapshot
       IN  /\ value' = next.value
           /\ context' = next.context
    /\ mounted' = "persist"
    /\ lastOp' = Op("LoadSavedEffect")
    /\ UNCHANGED <<activeSavedIndex, doc, inflight, localStorage, loaded, armed, wire,
                   server>>

\* mount, second effect: persist the savedDocuments of the first render, then, when
\* hydration replaced them, those of the re-render
PersistEffect ==
    /\ mounted \in {"persist", "rerender"}
    /\ localStorage' =
          IF mounted = "persist" THEN Persist(InitialContext.savedDocuments)
          ELSE Persist(context.savedDocuments)
    /\ mounted' =
          IF mounted = "persist" /\ localStorage.tag = "array" THEN "rerender" ELSE "ready"
    /\ lastOp' = Op("PersistEffect")
    /\ UNCHANGED <<value, context, activeSavedIndex, doc, inflight, loaded, armed,
                   wire, server>>

\* the user edits the document: dispatchTransaction -> handleContentChange
Type(text) ==
    /\ Ready
    /\ text # doc
    /\ Commit(Page(Transition(Snapshot, UpdateContent(text)), text, activeSavedIndex))
    /\ lastOp' = Op("handleContentChange")
    /\ UNCHANGED <<inflight, mounted, loaded, wire, server>>

\* the early return of handleContinueWriting
NothingToContinue == Len(Trim(context.editorContent)) = 0

\* handleContinueWriting up to the await (button click, Mod-Enter, Mod-Shift-Enter):
\* the number of calls it issues to /api/continue-writing
CallsIssuedTwice == IF NothingToContinue THEN 0 ELSE 2
CallsIssued == IF NothingToContinue THEN 0 ELSE 1

\* the body of the call: { text: state.context.editorContent,
\*                         provider: state.context.aiProvider }
RequestBodyInitialProvider ==
    [text |-> context.editorContent, provider |-> Some(InitialContext.aiProvider)]
RequestBody ==
    [text |-> context.editorContent, provider |-> Some(context.aiProvider)]

\* send({ type: "CONTINUE_WRITING" }) before the call: whether the machine took it
Accepted == value # "loadingAI" /\ Transition(Snapshot, ContinueWriting).value = "loadingAI"

\* the call as it is issued
IssuedCall ==
    [body |-> RequestBody,
     accepted |-> IF wire.observed = "calls" THEN Some(Accepted) ELSE None]

\* the wire, a bag of calls (call :> number of calls like it), with one more
\* call on it, and with one call b settled
Posted(w, call) ==
    IF w.observed # "off"
    THEN [w EXCEPT !.calls = IF call \in DOMAIN @ THEN [@ EXCEPT ![call] = @ + 1]
                             ELSE @ @@ (call :> 1)]
    ELSE w
Settled(w, b) ==
    [w EXCEPT !.calls = IF @[b] > 1 THEN [@ EXCEPT ![b] = @ - 1]
                        ELSE [c \in DOMAIN @ \ {b} |-> @[c]]]

HandleContinueWriting ==
    /\ Ready
    /\ inflight + CallsIssued <= MaxInflight
    /\ IF NothingToContinue
       THEN UNCHANGED <<value, context, armed>>
       ELSE LET next == Transition(Snapshot, ContinueWriting)
            IN  /\ value' = next.value
                /\ context' = next.context
                /\ armed' = Scheduled(value, next.value, armed)
    /\ inflight' = inflight + CallsIssued
    /\ wire' = IF NothingToContinue THEN wire ELSE Posted(wire, IssuedCall)
    /\ lastOp' = Op("handleContinueWriting")
    /\ UNCHANGED <<activeSavedIndex, doc, localStorage, mounted, loaded, server>>

\* handleContinueWriting after the await: the call returned with `continuation`
ResolvedAnyContinuation(continuation, now) ==
    Page(SendAll(Snapshot, <<UpdateContent(InsertText(continuation)),
                             AiSuccess(continuation, now)>>),
         InsertText(continuation), activeSavedIndex)
ResolvedWithoutReport(continuation, now) ==
    IF continuation # <<>>
    THEN Page(Transition(Snapshot, AiSuccess(continuation, now)),
              InsertText(continuation), activeSavedIndex)
    ELSE Page(Transition(Snapshot, AiError("No continuation received from AI", now)),
              doc, activeSavedIndex)
Resolved(continuation, now) ==
    IF continuation # <<>>
    THEN Page(SendAll(Snapshot, <<UpdateContent(InsertText(continuation)),
                                  AiSuccess(continuation, now)>>),
              InsertText(continuation), activeSavedIndex)
    ELSE Page(Transition(Snapshot, AiError("No continuation received from AI", now)),
              doc, activeSavedIndex)

RequestResolves(continuation, now) ==
    /\ inflight > 0
    /\ Len(Resolved(continuation, now).doc) <= MaxLen
    /\ inflight' = inflight - 1
    /\ IF wire.observed # "off" THEN \E b \in DOMAIN wire.calls : wire' = Settled(wire, b)
       ELSE UNCHANGED wire
    /\ Commit(Resolved(continuation, now))
    /\ lastOp' = Op(IF continuation # <<>> THEN "insertText" ELSE "noContinuation")
    /\ UNCHANGED <<mounted, loaded, server>>

\* handleContinueWriting after the await: apiRequest threw
RequestRejects(message, now) ==
    /\ inflight > 0
    /\ inflight' = inflight - 1
    /\ IF wire.observed # "off" THEN \E b \in DOMAIN wire.calls : wire' = Settled(wire, b)
       ELSE UNCHANGED wire
    /\ Commit(Page(Transition(Snapshot, AiError(message, now)), doc, activeSavedIndex))
    /\ lastOp' = Op("catch")
    /\ UNCHANGED <<mounted, loaded, server>>

\* the branch of handleSave that overwrites the opened session
OverwritesPositive(active, docs) ==
    active # None /\ The(active) > 0 /\ The(active) < Len(docs)
Overwrites(active, docs) ==
    active # None /\ The(active) >= 0 /\ The(active) < Len(docs)

\* handleSave
Saved ==
    LET currentContent == GetContent
        docs == context.savedDocuments
    IN  IF Len(Trim(currentContent)) = 0
        THEN Page(Snapshot, doc, activeSavedIndex)
        ELSE IF Overwrites(activeSavedIndex, docs)
        THEN Page(WithContent(
                      Transition(Snapshot,
                                 HydrateSaved([docs EXCEPT ![The(activeSavedIndex) + 1] =
                                                   currentContent])),
                      <<>>, <<UpdateContent(<<>>)>>),
                  <<>>, None)
        ELSE Page(WithContent(Transition(Snapshot, SaveDocument(currentContent)),
                              <<>>, <<>>),
                  <<>>, None)

SaveBranch ==
    IF Len(Trim(GetContent)) = 0 THEN "empty"
    ELSE IF Overwrites(activeSavedIndex, context.savedDocuments) THEN "overwrite"
    ELSE "new"

\* the Save Document button, enabled while hasContent
HandleSave ==
    /\ Ready
    /\ Len(Trim(context.editorContent)) > 0
    /\ Len(Saved.context.savedDocuments) <= MaxDocs
    /\ Commit(Saved)
    /\ lastOp' = Op("handleSave:" \o SaveBranch)
    /\ loaded' = IF SaveBranch = "empty" THEN loaded ELSE None
    /\ UNCHANGED <<inflight, mounted, wire, server>>

\* if (!doc) return; in handleOpenSaved
Missing(d) == d = <<>> \/ d = Null

\* handleOpenSaved(index)
Opened(index) ==
    LET d == context.savedDocuments[index + 1]
    IN  IF index \notin 0..(Len(context.savedDocuments) - 1) \/ Missing(d)
        THEN Page(Snapshot, doc, activeSavedIndex)
        ELSE Page(WithContent(Snapshot, d, <<UpdateContent(d)>>), d, Some(index))

\* a card of the sidebar, or Last Saved
HandleOpenSaved(index) ==
    /\ Ready
    /\ index \in 0..(Len(context.savedDocuments) - 1)
    /\ Commit(Opened(index))
    /\ lastOp' = OpAt("handleOpenSaved", index)
    /\ loaded' = IF Opened(index).active = Some(index) THEN Some(index) ELSE loaded
    /\ UNCHANGED <<inflight, mounted, wire, server>>

\* handleClear
ClearedKeepsActive ==
    Page(WithContent(Snapshot, <<>>, <<UpdateContent(<<>>)>>), <<>>, activeSavedIndex)
Cleared ==
    Page(WithContent(Snapshot, <<>>, <<UpdateContent(<<>>)>>), <<>>, None)

\* the Clear button
HandleClear ==
    /\ Ready
    /\ Commit(Cleared)
    /\ lastOp' = Op("handleClear")
    /\ loaded' = None
    /\ UNCHANGED <<inflight, mounted, wire, server>>

\* handleProviderSwitch(provider): the AI select
HandleProviderSwitch(provider) ==
    /\ Ready
    /\ provider # context.aiProvider
    /\ Commit(Page(Transition(Snapshot, SwitchProvider(provider)), doc, activeSavedIndex))
    /\ lastOp' = Op("handleProviderSwitch")
    /\ UNCHANGED <<inflight, mounted, loaded, wire, server>>

\* the active index after the session at `index` is deleted
AdjustActiveNoShift(active, index) ==
    IF active # None /\ index = The(active) THEN None ELSE active
AdjustActive(active, index) ==
    IF active # None
    THEN IF index = The(active) THEN None
         ELSE IF index < The(active) THEN Some(The(active) - 1)
         ELSE active
    ELSE active

\* handleDeleteSaved(index)
Deleted(index) ==
    Page(Transition(Snapshot, DeleteDocument(index)), doc,
         AdjustActive(activeSavedIndex, index))

\* the delete button of a card
HandleDeleteSaved(index) ==
    /\ Ready
    /\ index \in 0..(Len(context.savedDocuments) - 1)
    /\ Commit(Deleted(index))
    /\ lastOp' = OpAt("handleDeleteSaved", index)
    /\ loaded' = None
    /\ UNCHANGED <<inflight, mounted, wire, server>>

\* error.after[5000]: the delayed transition armed on entry into error
AfterDelay ==
    /\ Ready
    /\ \E t \in armed :
          LET next == Transition(Snapshot, After5000)
          IN  /\ value' = next.value
              /\ context' = next.context
              /\ armed' = Scheduled(value, next.value, armed \ {t})
    /\ lastOp' = Op("after")
    /\ UNCHANGED <<activeSavedIndex, doc, inflight, localStorage, mounted, loaded,
                   wire, server>>

\* ---------------------------------------------------------------- the page in a browser
Init ==
    /\ value = "idle"
    /\ context = InitialContext
    /\ activeSavedIndex = None
    /\ doc = <<>>
    /\ inflight = 0
    /\ localStorage \in InitialStorage
    /\ mounted = "mount"
    /\ lastOp = Op("createMachine")
    /\ loaded = None
    /\ wire = [observed |-> "off", calls |-> <<>>]
    /\ server = NoServer
    /\ armed = {}

Next ==
    \/ LoadSavedEffect
    \/ PersistEffect
    \/ \E text \in Typed : Type(text)
    \/ HandleContinueWriting
    \/ \E c \in Continuations, now \in Clock : RequestResolves(c, now)
    \/ \E m \in RequestErrors, now \in Clock : RequestRejects(m, now)
    \/ HandleSave
    \/ \E index \in 0..(MaxDocs - 1) : HandleOpenSaved(index)
    \/ HandleClear
    \/ \E p \in AIProvider : HandleProviderSwitch(p)
    \/ \E index \in 0..(MaxDocs - 1) : HandleDeleteSaved(index)
    \/ AfterDelay

Spec == Init /\ [][Next]_vars

\* ---------------------------------------------------------------- the server
\* A message is a sequence of fragments; the fragments that the catch of
\* continueWriting looks for ("API key", "API_KEY", "quota", "rate limit") are
\* fragments of their own wherever they occur in a message.
Includes(message, fragment) == \E i \in 1..Len(message) : message[i] = fragment

\* process.env: the variables that are set
EnvKeys == {"GEMINI_API_KEY", "OPENAI_API_KEY", "MISTRAL_API_KEY"}

\* characters of the text a vendor returns
Chars == {" ", "a", ".", "?"}

\* messages of the errors a vendor call throws
VendorMessages ==
    {<<"fetch failed">>,
     <<"You exceeded your current ", "quota">>,
     <<"rate limit", " reached">>,
     <<"Incorrect ", "API key", " provided">>,
     <<"API_KEY", "_INVALID">>,
     <<"quota", " or ", "rate limit">>,
     <<"API key", " over ", "quota">>}

\* what a vendor call does: it resolves with a response whose text is `text`
\* (None: no text in it; for Gemini "content" is response.text and "candidate" is
\* candidates[0].content.parts[0].text with response.text empty), it resolves with
\* a status that is not ok, or it throws (None: a value that is not an Error)
Content(text) == [kind |-> "content", text |-> text]
Candidate(text) == [kind |-> "candidate", text |-> text]
NotOk(body) == [kind |-> "status", body |-> body]
Throws(error) == [kind |-> "throws", error |-> error]

RECURSIVE TextsUpTo(_)
TextsUpTo(n) ==
    IF n = 0 THEN {<<>>}
    ELSE TextsUpTo(n - 1) \cup {Append(t, c) : t \in TextsUpTo(n - 1), c \in Chars}

OptionalTexts == {None} \cup {Some(t) : t \in TextsUpTo(MaxLen)}
Thrown == {None} \cup {Some(m) : m \in VendorMessages}

Replies(adapter) ==
    {Content(t) : t \in OptionalTexts} \cup {Throws(e) : e \in Thrown}
    \cup (IF adapter = "generateWithGemini"
          THEN {Candidate(t) : t \in OptionalTexts} ELSE {})
    \cup (IF adapter = "generateWithMistral"
          THEN {NotOk(m) : m \in VendorMessages} ELSE {})

\* how a call of a generate function or of continueWriting ends, after `network`
\* vendor calls: it returns text, or it throws error (None: not an Error value)
Returned(network, text) == [network |-> network, ok |-> TRUE, value |-> text]
Threw(network, error) == [network |-> network, ok |-> FALSE, value |-> error]

\* if (!process.env.X_API_KEY)
ConfiguredAlways(env, key) == TRUE
Configured(env, key) == key \in env

\* content?.trim(), then if (!content) throw: OpenAI and Mistral
Extracted(reply, complaint) ==
    IF reply.text # None /\ Trim(The(reply.text)) # <<>>
    THEN Returned(1, Trim(The(reply.text)))
    ELSE Threw(1, Some(complaint))

generateWithGemini(env, reply) ==
    IF ~Configured(env, "GEMINI_API_KEY")
    THEN Threw(0, Some(<<"GEMINI_", "API_KEY", " is not configured">>))
    ELSE CASE reply.kind = "throws" -> Threw(1, reply.error)
           [] reply.kind = "content" /\ reply.text # None /\ The(reply.text) # <<>> ->
                 Returned(1, Trim(The(reply.text)))
           [] reply.kind = "candidate" ->
                 Returned(1, IF reply.text = None THEN <<>> ELSE Trim(The(reply.text)))
           [] OTHER -> Threw(1, Some(<<"No text generated from Gemini">>))

generateWithOpenAI(env, reply) ==
    IF ~Configured(env, "OPENAI_API_KEY")
    THEN Threw(0, Some(<<"OPENAI_", "API_KEY", " is not configured">>))
    ELSE CASE reply.kind = "throws" -> Threw(1, reply.error)
           [] OTHER -> Extracted(reply, <<"No text generated from OpenAI">>)

generateWithMistral(env, reply) ==
    IF ~Configured(env, "MISTRAL_API_KEY")
    THEN Threw(0, Some(<<"MISTRAL_", "API_KEY", " is not configured">>))
    ELSE CASE reply.kind = "throws" -> Threw(1, reply.error)
           [] reply.kind = "status" ->
                 Threw(1, Some(<<"Mistral API error: ", "status", " - ">> \o reply.body))
           [] OTHER -> Extracted(reply, <<"No text generated from Mistral">>)

\* the generate function that the switch of continueWriting selects
Adapter(provider) ==
    CASE provider = "gemini" -> "generateWithGemini"
      [] provider = "openai" -> "generateWithOpenAI"
      [] provider = "mistral" -> "generateWithMistral"

Generate(adapter, env, reply) ==
    CASE adapter = "generateWithGemini" -> generateWithGemini(env, reply)
      [] adapter = "generateWithOpenAI" -> generateWithOpenAI(env, reply)
      [] adapter = "generateWithMistral" -> generateWithMistral(env, reply)

\* const needsSpace = continuation && !/^[.,;:!?]/.test(continuation)
Punctuation == {".", ",", ";", ":", "!", "?"}
NeedsSpaceAlways(continuation) == continuation # <<>>
NeedsSpace(continuation) == continuation # <<>> /\ Head(continuation) \notin Punctuation
Spaced(continuation) ==
    IF NeedsSpace(continuation) THEN <<" ">> \o continuation ELSE continuation

\* the catch of continueWriting: the message of the Error it throws
ClassifiedQuotaFirst(provider, error) ==
    IF error = None THEN <<"AI generation failed: Unknown error">>
    ELSE IF Includes(The(error), "quota")
         THEN <<"API ", "quota", " exceeded. Please try again later">>
    ELSE IF Includes(The(error), "API key") \/ Includes(The(error), "API_KEY")
         THEN <<"Invalid or missing ", provider, " ", "API key">>
    ELSE IF Includes(The(error), "rate limit")
         THEN <<"Rate limit exceeded. Please wait a moment">>
    ELSE <<"AI generation failed: ">> \o The(error)
Classified(provider, error) ==
    IF error = None THEN <<"AI generation failed: Unknown error">>
    ELSE IF Includes(The(error), "API key") \/ Includes(The(error), "API_KEY")
         THEN <<"Invalid or missing ", provider, " ", "API key">>
    ELSE IF Includes(The(error), "quota")
         THEN <<"API ", "quota", " exceeded. Please try again later">>
    ELSE IF Includes(The(error), "rate limit")
         THEN <<"Rate limit exceeded. Please wait a moment">>
    ELSE <<"AI generation failed: ">> \o The(error)

\* the try block of continueWriting: the generate functions invoked, and how it ends
Tried(text, provider, env, reply) ==
    IF Len(Trim(text)) = 0
    THEN [adapters |-> <<>>,
          end |-> Threw(0, Some(<<"Cannot generate continuation for empty text">>))]
    ELSE IF provider \notin AIProvider
    THEN [adapters |-> <<>>,
          end |-> Threw(0, Some(<<"Unsupported AI provider: ", provider>>))]
    ELSE LET generated == Generate(Adapter(provider), env, reply)
         IN  [adapters |-> <<Adapter(provider)>>,
              end |-> IF ~generated.ok THEN generated
                      ELSE IF generated.value = <<>>
                      THEN Threw(generated.network,
                                 Some(<<"No text generated from AI model. The AI may have returned only thoughts without actual content.">>))
                      ELSE Returned(generated.network, Spaced(generated.value))]

\* continueWriting(text, provider = "gemini"); provider None: argument left out
continueWriting(text, provider, env, reply) ==
    LET p == IF provider = None THEN "gemini" ELSE The(provider)
        tried == Tried(text, p, env, reply)
    IN  [adapters |-> tried.adapters,
         end |-> IF tried.end.ok THEN tried.end
                 ELSE Threw(tried.end.network, Some(Classified(p, tried.end.value)))]

\* continueWritingRequestSchema.safeParse(req.body): the parsed data, None when
\* validation fails; a body without text (or with a text that is no string) has
\* text NoText, which is none of the texts
NoText == <<"undefined">>

Validated(body) ==
    IF body.text = <<>> \/ body.text = NoText \/ ~(body.provider \subseteq AIProvider)
    THEN None
    ELSE Some([text |-> body.text,
               provider |-> IF body.provider = None THEN "gemini"
                            ELSE The(body.provider)])

\* POST /api/continue-writing: const { text } = validation.data;
\* continueWriting(text); the response, the generate functions invoked and the
\* number of vendor calls
PostContinueWriting(body, env, reply) ==
    IF Validated(body) = None
    THEN [status |-> 400, json |-> [error |-> "Invalid request"],
          adapters |-> <<>>, network |-> 0]
    ELSE LET run == continueWriting(The(Validated(body)).text, None, env, reply)
         IN  IF run.end.ok
             THEN [status |-> 200, json |-> [continuation |-> run.end.value],
                   adapters |-> run.adapters, network |-> run.end.network]
             ELSE [status |-> 500,
                   json |-> [error |-> "AI generation failed",
                             message |-> The(run.end.value)],
                   adapters |-> run.adapters, network |-> run.end.network]

\* the responses the handler of the route sends for one request, in order
ResponsesWithoutReturn(body, env, reply) ==
    LET handled == PostContinueWriting(body, env, reply)
    IN  IF handled.status = 400
        THEN <<[status |-> 400, json |-> handled.json],
               [status |-> 500,
                json |-> [error |-> "AI generation failed",
                          message |-> <<"Cannot destructure property 'text'">>]]>>
        ELSE <<[status |-> handled.status, json |-> handled.json]>>
Responses(body, env, reply) ==
    LET handled == PostContinueWriting(body, env, reply)
    IN  <<[status |-> handled.status, json |-> handled.json]>>

\* The server process: it is started with the environment env, handles requests
\* to POST /api/continue-writing one after the other; continueWriting is also
\* called directly, with every text and provider.
Listening(env) == [pc |-> "listening", env |-> env]

Providers == {None} \cup {Some(p) : p \in AIProvider \cup {"claude"}}

RequestBodies == [text : Typed \cup {NoText}, provider : Providers]

\* the replies of the vendor that continueWriting(text, provider) can meet
RepliesTo(provider) ==
    LET p == IF provider = None THEN "gemini" ELSE The(provider)
    IN  IF p \in AIProvider THEN Replies(Adapter(p)) ELSE {Throws(None)}

Post(body, reply) ==
    /\ server.pc = "listening"
    /\ server' = [pc |-> "responded", env |-> server.env, body |-> body, reply |-> reply,
                  response |-> PostContinueWriting(body, server.env, reply),
                  answers |-> Responses(body, server.env, reply)]
    /\ UNCHANGED <<value, context, activeSavedIndex, doc, inflight, localStorage, mounted,
                   lastOp, loaded, wire, armed>>

Call(text, provider, reply) ==
    /\ server.pc = "listening"
    /\ server' = [pc |-> "returned", env |-> server.env, text |-> text,
                  provider |-> provider, reply |-> reply,
                  run |-> continueWriting(text, provider, server.env, reply)]
    /\ UNCHANGED <<value, context, activeSavedIndex, doc, inflight, localStorage, mounted,
                   lastOp, loaded, wire, armed>>

Listen ==
    /\ server.pc \in {"responded", "returned"}
    /\ server' = Listening(server.env)
    /\ UNCHANGED <<value, context, activeSavedIndex, doc, inflight, localStorage, mounted,
                   lastOp, loaded, wire, armed>>

ServerInit ==
    /\ value = "idle"
    /\ context = InitialContext
    /\ activeSavedIndex = None
    /\ doc = <<>>
    /\ inflight = 0
    /\ localStorage = Absent
    /\ mounted = "server"
    /\ lastOp = Op("listen")
    /\ loaded = None
    /\ wire = [observed |-> "off", calls |-> <<>>]
    /\ server \in {Listening(env) : env \in SUBSET EnvKeys}
    /\ armed = {}

ServerNext ==
    \/ \E body \in RequestBodies, reply \in RepliesTo(None) : Post(body, reply)
    \/ \E text \in Typed, provider \in Providers :
          \E reply \in RepliesTo(provider) : Call(text, provider, reply)
    \/ Listen

ServerSpec == ServerInit /\ [][ServerNext]_vars

\* ---------------------------------------------------------------- the page and the server
\* The editing workflow of a page opened on an empty store, with the bodies of the
\* calls observed on their way to the server.
WireInit ==
    /\ value = "idle"
    /\ context = InitialContext
    /\ activeSavedIndex = None
    /\ doc = <<>>
    /\ inflight = 0
    /\ localStorage = Absent
    /\ mounted = "mount"
    /\ lastOp = Op("createMachine")
    /\ loaded = None
    /\ wire = [observed |-> "bodies", calls |-> <<>>]
    /\ server = NoServer
    /\ armed = {}

WireNext ==
    \/ LoadSavedEffect
    \/ PersistEffect
    \/ \E text \in Typed : Type(text)
    \/ HandleContinueWriting
    \/ \E c \in Continuations, now \in Clock : RequestResolves(c, now)
    \/ \E m \in RequestErrors, now \in Clock : RequestRejects(m, now)
    \/ HandleClear
    \/ \E p \in AIProvider : HandleProviderSwitch(p)
    \/ AfterDelay

WireSpec == WireInit /\ [][WireNext]_vars

\* the same workflow, observed with what the machine did with each trigger
CallInit ==
    /\ value = "idle"
    /\ context = InitialContext
    /\ activeSavedIndex = None
    /\ doc = <<>>
    /\ inflight = 0
    /\ localStorage = Absent
    /\ mounted = "mount"
    /\ lastOp = Op("createMachine")
    /\ loaded = None
    /\ wire = [observed |-> "calls", calls |-> <<>>]
    /\ server = NoServer
    /\ armed = {}

CallSpec == CallInit /\ [][WireNext]_vars

\* ---------------------------------------------------------------- the actor on its own
\* Every event of EditorEvent can be sent to the actor in every state.
RECURSIVE SeqsUpTo(_, _)
SeqsUpTo(S, n) ==
    IF n = 0 THEN {<<>>}
    ELSE LET shorter == SeqsUpTo(S, n - 1)
         IN  shorter \cup {Append(q, x) : q \in shorter, x \in S}

EditorEvent ==
    {UpdateContent(c) : c \in Typed}
    \cup {SaveDocument(c) : c \in Typed}
    \cup {HydrateSaved(d) : d \in SeqsUpTo(Typed, MaxDocs)}
    \cup {SwitchProvider(p) : p \in AIProvider}
    \cup {DeleteDocument(i) : i \in (-1)..MaxDocs}
    \cup {ContinueWriting, ClearError}
    \cup {AiSuccess(d, t) : d \in Continuations, t \in Clock}
    \cup {AiError(m, t) : m \in RequestErrors, t \in Clock}

Deliver(event, timers) ==
    /\ mounted = "actor"
    /\ Len(Transition(Snapshot, event).context.savedDocuments) <= MaxDocs
    /\ value' = Transition(Snapshot, event).value
    /\ context' = Transition(Snapshot, event).context
    /\ armed' = Scheduled(value, Transition(Snapshot, event).value, timers)
    /\ lastOp' = Op(event.type)
    /\ UNCHANGED <<activeSavedIndex, doc, inflight, localStorage, mounted, loaded,
                   wire, server>>

Send(event) == Deliver(event, armed)

SendUpdateContent == \E e \in EditorEvent : e.type = "UPDATE_CONTENT" /\ Send(e)
SendSaveDocument == \E e \in EditorEvent : e.type = "SAVE_DOCUMENT" /\ Send(e)
SendHydrateSaved == \E e \in EditorEvent : e.type = "HYDRATE_SAVED" /\ Send(e)
SendSwitchAiProvider == \E e \in EditorEvent : e.type = "SWITCH_AI_PROVIDER" /\ Send(e)
SendDeleteDocument == \E e \in EditorEvent : e.type = "DELETE_DOCUMENT" /\ Send(e)
SendContinueWriting == Send(ContinueWriting)
SendAiSuccess == \E e \in EditorEvent : e.type = "AI_SUCCESS" /\ Send(e)
SendAiError == \E e \in EditorEvent : e.type = "AI_ERROR" /\ Send(e)
SendClearError == Send(ClearError)
Elapse5000 == \E t \in armed : Deliver(After5000, armed \ {t})

ActorInit ==
    /\ value = "idle"
    /\ context = InitialContext
    /\ activeSavedIndex = None
    /\ doc = <<>>
    /\ inflight = 0
    /\ localStorage = Absent
    /\ mounted = "actor"
    /\ lastOp = Op("createMachine")
    /\ loaded = None
    /\ wire = [observed |-> "off", calls |-> <<>>]
    /\ server = NoServer
    /\ armed = {}

ActorNext ==
    \/ SendUpdateContent
    \/ SendSaveDocument
    \/ SendHydrateSaved
    \/ SendSwitchAiProvider
    \/ SendDeleteDocument
    \/ SendContinueWriting
    \/ SendAiSuccess
    \/ SendAiError
    \/ SendClearError
    \/ Elapse5000

ActorSpec == ActorInit /\ [][ActorNext]_vars

\* the scheduler delivers a delayed event that stays scheduled
ActorLive == ActorSpec /\ WF_vars(Elapse5000)

\* ---------------------------------------------------------------- properties
Blank(text) == \A i \in 1..Len(text) : text[i] = " "
ValidIndex(docs) == 0..(Len(docs) - 1)
Without(docs, i) == SubSeq(docs, 1, i) \o SubSeq(docs, i + 2, Len(docs))

\* C1: with non-blank editorContent, CONTINUE_WRITING takes idle to loadingAI, and
\* in loadingAI it is not accepted: neither the state nor any context field changes.
C1_ContinueWritingFromIdle ==
    ~Blank(context.editorContent) =>
        /\ value = "idle" =>
              Transition(Snapshot, ContinueWriting) = Snap("loadingAI", context)
        /\ value = "loadingAI" => Transition(Snapshot, ContinueWriting) = Snapshot

C1_Witness ==
    /\ lastOp = Op("CONTINUE_WRITING")
    /\ value = "loadingAI"
    /\ ~Blank(context.editorContent)

\* C2: with blank editorContent, CONTINUE_WRITING in idle or error changes neither
\* the state nor the context, and no event enters loadingAI from a state whose
\* editorContent is blank.
C2_BlankContinueWritingRejected ==
    Blank(context.editorContent) =>
        /\ value \in {"idle", "error"} => Transition(Snapshot, ContinueWriting) = Snapshot
        /\ \A e \in EditorEvent \cup {After5000} :
              value # "loadingAI" => Transition(Snapshot, e).value # "loadingAI"

C2_Witness ==
    /\ lastOp = Op("CONTINUE_WRITING")
    /\ value = "error"
    /\ context.editorContent = <<" ">>

\* C3: context.error is non-null exactly when the state is error.
C3_ErrorIffFailed == (context.error # None) <=> (value = "error")

\* C4: at most one call to /api/continue-writing is outstanding.
C4_OneOutstanding == inflight <= 1

\* C5: the active index is null or a position of savedDocuments.
C5_ActiveIndexValid ==
    activeSavedIndex = None \/ The(activeSavedIndex) \in ValidIndex(context.savedDocuments)

C5_Witness ==
    /\ lastOp.op = "handleDeleteSaved"
    /\ activeSavedIndex # None
    /\ The(lastOp.index) <= The(activeSavedIndex)

\* C6: deleting the session at a valid index i removes exactly that element, keeps
\* the others in order, and moves a non-null active index a to a-1 when i < a, to
\* null when i = a and nowhere when i > a, so that it designates the same text.
C6_DeleteReindexes ==
    \A i \in ValidIndex(context.savedDocuments) :
        LET docs == context.savedDocuments
            after == Deleted(i)
        IN  /\ after.context.savedDocuments = Without(docs, i)
            /\ after.context = [context EXCEPT !.savedDocuments = Without(docs, i)]
            /\ activeSavedIndex = None => after.active = None
            /\ activeSavedIndex # None =>
                  LET a == The(activeSavedIndex)
                  IN  /\ i < a => after.active = Some(a - 1)
                      /\ i = a => after.active = None
                      /\ i > a => after.active = Some(a)
                      /\ after.active # None =>
                            after.context.savedDocuments[The(after.active) + 1] = docs[a + 1]

C6_Witness ==
    /\ lastOp.op = "handleDeleteSaved"
    /\ activeSavedIndex # None
    /\ The(lastOp.index) <= The(activeSavedIndex)
    /\ Len(context.savedDocuments) >= 1
    /\ context.editorContent = context.savedDocuments[The(activeSavedIndex) + 1]

\* C7: with a null active index and non-blank content c, save appends c to
\* savedDocuments, empties editorContent and leaves the active index null.
C7_SaveAsNew ==
    (Ready /\ activeSavedIndex = None /\ ~Blank(GetContent)) =>
        /\ Saved.context.savedDocuments = Append(context.savedDocuments, GetContent)
        /\ Saved.context.editorContent = <<>>
        /\ Saved.doc = <<>>
        /\ Saved.active = None
        /\ context.savedDocuments = <<>> => Saved.context.savedDocuments = <<GetContent>>

C7_Witness ==
    /\ lastOp = Op("handleSave:new")
    /\ Len(context.savedDocuments) = 2
    /\ context.savedDocuments[1] # context.savedDocuments[2]
    /\ context.editorContent = <<>>
    /\ activeSavedIndex = None

\* C8: after a session was opened at index i, with no clear, delete or save since,
\* a save with non-blank content c replaces savedDocuments[i] by c, changes no other
\* entry and not the length, empties editorContent and nulls the active index.
C8_SaveOverwrites ==
    (loaded # None /\ ~Blank(GetContent)) =>
        LET i == The(loaded)
        IN  /\ i \in ValidIndex(context.savedDocuments)
            /\ Saved.context.savedDocuments =
                  [context.savedDocuments EXCEPT ![i + 1] = GetContent]
            /\ Saved.context.editorContent = <<>>
            /\ Saved.doc = <<>>
            /\ Saved.active = None

C8_Witness ==
    /\ lastOp = Op("handleSave:overwrite")
    /\ Len(context.savedDocuments) = 2
    /\ context.savedDocuments[1] = <<"a", "a">>
    /\ context.editorContent = <<>>

\* C9: SAVE_DOCUMENT with blank content changes no context field.
C9_BlankSaveIsNoOp ==
    \A c \in Typed :
        Blank(c) => Transition(Snapshot, SaveDocument(c)) = Snapshot

\* C10: opening the session at a valid index i sets editorContent and the document
\* to savedDocuments[i] and the active index to i, and leaves savedDocuments alone.
C10_LoadSetsContent ==
    Ready =>
        \A i \in ValidIndex(context.savedDocuments) :
            /\ Opened(i).context.editorContent = context.savedDocuments[i + 1]
            /\ Opened(i).doc = context.savedDocuments[i + 1]
            /\ Opened(i).active = Some(i)
            /\ Opened(i).context.savedDocuments = context.savedDocuments

\* C11: Clear, in every workflow state, empties editorContent and the document and
\* nulls the active index; savedDocuments, aiProvider, error, aiGeneratedText,
\* lastRequestTime and the workflow state stay as they were.
C11_ClearFrame ==
    Ready =>
        /\ Cleared.value = value
        /\ Cleared.context = [context EXCEPT !.editorContent = <<>>]
        /\ Cleared.doc = <<>>
        /\ Cleared.active = None

C11_Witness ==
    /\ lastOp = Op("handleClear")
    /\ value = "loadingAI"
    /\ context.error # None
    /\ context.savedDocuments # <<>>
    /\ context.aiProvider # "gemini"
    /\ context.editorContent = <<>> /\ doc = <<>> /\ activeSavedIndex = None

\* C12: HYDRATE_SAVED(L), in every workflow state, makes savedDocuments exactly L
\* and changes neither another context field nor the workflow state.
C12_HydrateReplaces ==
    \A L \in SeqsUpTo(Typed, MaxDocs) :
        Transition(Snapshot, HydrateSaved(L)) =
            Snap(value, [context EXCEPT !.savedDocuments = L])

C12_Witness ==
    /\ lastOp = Op("HYDRATE_SAVED")
    /\ value = "loadingAI"
    /\ context.savedDocuments = <<<<"a">>, <<>>>>
    /\ context.editorContent # <<>>

IsString(x) == x # Null
AllStrings(items) == \A i \in 1..Len(items) : IsString(items[i])

\* C14: after the hydration effect, the actor is in idle and savedDocuments is the
\* stored value when that is an array of strings, and empty when the stored value
\* is absent, unparsable, not an array or an array with a non-string element.
C14_HydrationValidates ==
    mounted = "persist" =>
        /\ value = "idle"
        /\ context.savedDocuments =
              IF localStorage.tag = "array" /\ AllStrings(localStorage.items)
              THEN localStorage.items
              ELSE <<>>

\* C15: in error, CLEAR_ERROR and the delayed event both lead to idle with
\* error = null and nothing else changed, and the machine does not stay in error:
\* unless CLEAR_ERROR or an accepted CONTINUE_WRITING leaves error first, the
\* delayed event is delivered.
C15_ErrorRecovers ==
    /\ [][(value = "error" /\ lastOp'.op \in {"CLEAR_ERROR", "xstate.after.5000"}) =>
              (value' = "idle" /\ context' = [context EXCEPT !.error = None])]_vars
    /\ [][(value = "error" /\ value' # "error") =>
              lastOp'.op \in {"CLEAR_ERROR", "xstate.after.5000", "CONTINUE_WRITING"}]_vars
    /\ (value = "error") ~>
          ((value = "idle" /\ context.error = None) \/ value = "loadingAI")

C15_Witness ==
    /\ lastOp = Op("xstate.after.5000")
    /\ value = "idle"
    /\ context.error = None
    /\ context.lastRequestTime # None
    /\ context.aiGeneratedText = <<>>

\* C16: the only delayed event scheduled is the one of the current stay in error:
\* leaving error by CLEAR_ERROR, by a new request or by the delayed event itself
\* leaves none behind, so none scheduled on an earlier entry is delivered later.
C16_NoStaleTimer == armed = IF value = "error" THEN {"this"} ELSE {}

C16_Witness ==
    /\ lastOp = Op("CONTINUE_WRITING")
    /\ value = "loadingAI"
    /\ context.error # None
    /\ armed = {}

\* C17: every failure of a call, of the response check or of the insertion puts
\* the machine into error with a non-null message (the part of the claim about
\* failures; the machine then leaves error by C15).
C17_FailureSurfaces ==
    [][lastOp'.op \in {"catch", "noContinuation"} =>
          (value' = "error" /\ context'.error # None)]_vars

Calls(w, b) == IF b \in DOMAIN w.calls THEN w.calls[b] ELSE 0

\* C18: UPDATE_CONTENT(text) and SWITCH_AI_PROVIDER(id) are taken in every workflow
\* state, change editorContent, respectively aiProvider, and nothing else; the body
\* of a call holds the editorContent and aiProvider of the moment it was issued,
\* and no later content change or provider switch alters a body on the wire.
C18_ContentAndProviderFrame ==
    /\ [](\A c \in Typed :
            Transition(Snapshot, UpdateContent(c)) =
                Snap(value, [context EXCEPT !.editorContent = c]))
    /\ [](\A p \in AIProvider :
            Transition(Snapshot, SwitchProvider(p)) =
                Snap(value, [context EXCEPT !.aiProvider = p]))
    /\ [][lastOp'.op = "handleContinueWriting" =>
              \A b \in DOMAIN wire'.calls :
                  Calls(wire', b) > Calls(wire, b) =>
                      /\ b.body.text = context.editorContent
                      /\ b.body.provider = Some(context.aiProvider)]_vars
    /\ [][lastOp'.op # "handleContinueWriting" =>
              \A b \in DOMAIN wire'.calls : Calls(wire', b) <= Calls(wire, b)]_vars
    /\ [][lastOp'.op \in {"handleContentChange", "handleProviderSwitch", "handleClear"} =>
              wire' = wire]_vars

C18_Witness ==
    /\ lastOp = Op("handleProviderSwitch")
    /\ value = "loadingAI"
    /\ \E b \in DOMAIN wire.calls :
          /\ b.body.provider # Some(context.aiProvider)
          /\ b.body.text # context.editorContent

\* C19: the server invokes the generate function of the provider named in the body
\* of the call, which is the provider selected on the page when the call was
\* issued, and no other.
C19_AdapterOfSelectedProvider ==
    \A b \in DOMAIN wire.calls :
        \A env \in SUBSET EnvKeys, reply \in Replies(Adapter(The(b.body.provider))) :
            PostContinueWriting(b.body, env, reply).adapters =
                <<Adapter(The(b.body.provider))>>

\* C20: aiProvider is gemini at first, SWITCH_AI_PROVIDER(id) sets it to id, no
\* other event changes it, and no handler of the page other than the provider
\* switch changes it.
C20_ProviderSticky ==
    /\ [](lastOp = Op("createMachine") => context.aiProvider = "gemini")
    /\ [](\A e \in EditorEvent \cup {After5000} :
            Transition(Snapshot, e).context.aiProvider =
                IF e.type = "SWITCH_AI_PROVIDER" THEN e.provider ELSE context.aiProvider)
    /\ [][context'.aiProvider # context.aiProvider =>
              lastOp'.op = "handleProviderSwitch"]_vars

C20_Witness ==
    /\ lastOp = Op("handleSave:new")
    /\ context.aiProvider = "openai"
    /\ context.aiGeneratedText # <<>>
    /\ context.error # None

\* the kind of failure a caller of continueWriting can tell from its message
Category(message) ==
    CASE Head(message) = "Invalid or missing " -> "MissingCredential"
      [] message = <<"API ", "quota", " exceeded. Please try again later">> -> "QuotaExceeded"
      [] message = <<"Rate limit exceeded. Please wait a moment">> -> "RateLimited"
      [] Head(message) = "AI generation failed: " -> "GenerationFailed"
      [] message = <<"AI generation failed: Unknown error">> -> "GenerationFailed"
      [] OTHER -> "none"

KeyOf(provider) ==
    CASE provider = "gemini" -> "GEMINI_API_KEY"
      [] provider = "openai" -> "OPENAI_API_KEY"
      [] provider = "mistral" -> "MISTRAL_API_KEY"

\* continueWriting has returned or thrown; the provider it ran with
HasReturned == server.pc = "returned"
CalledProvider == IF server.provider = None THEN "gemini" ELSE The(server.provider)

\* C21: when the generate function returns a non-empty text t, continueWriting
\* returns t itself if t starts with one of . , ; : ! ? and one space followed by
\* t otherwise.
C21_PunctuationSpacing ==
    (HasReturned /\ ~Blank(server.text) /\ CalledProvider \in AIProvider) =>
        LET generated == Generate(Adapter(CalledProvider), server.env, server.reply)
        IN  (generated.ok /\ generated.value # <<>>) =>
                /\ server.run.end.ok
                /\ server.run.end.value =
                      IF Head(generated.value) \in {".", ",", ";", ":", "!", "?"}
                      THEN generated.value
                      ELSE <<" ">> \o generated.value

C21_Witness ==
    /\ HasReturned
    /\ server.run.end.ok
    /\ server.run.end.value = <<" ", "a", "?">>

\* C22: continueWriting with empty or whitespace-only text invokes no generate
\* function, makes no vendor call and throws an error that is not of the
\* GenerationFailed kind.
C22_EmptyInputDistinct ==
    (HasReturned /\ Blank(server.text)) =>
        /\ server.run.adapters = <<>>
        /\ server.run.end.network = 0
        /\ ~server.run.end.ok
        /\ Category(The(server.run.end.value)) # "GenerationFailed"

\* C23: when the key of the selected provider is not set, no vendor call is made
\* and continueWriting throws the MissingCredential error naming the provider.
C23_MissingCredential ==
    (/\ HasReturned
     /\ ~Blank(server.text)
     /\ CalledProvider \in AIProvider
     /\ KeyOf(CalledProvider) \notin server.env) =>
        /\ server.run.end.network = 0
        /\ ~server.run.end.ok
        /\ The(server.run.end.value) =
              <<"Invalid or missing ", CalledProvider, " ", "API key">>
        /\ Category(The(server.run.end.value)) = "MissingCredential"

C23_Witness ==
    /\ HasReturned
    /\ server.provider = Some("mistral")
    /\ server.env = {"GEMINI_API_KEY", "OPENAI_API_KEY"}
    /\ server.text = <<"a">>
    /\ server.reply = Content(Some(<<"a">>))
    /\ ~server.run.end.ok

\* C24: when the vendor call resolves without usable text (none, empty or
\* whitespace only), continueWriting throws, and the error is not of the kind
\* used for transport failures (GenerationFailed).
C24_EmptyResponseDistinct ==
    (/\ HasReturned
     /\ server.run.adapters # <<>>
     /\ KeyOf(CalledProvider) \in server.env
     /\ server.reply.kind \in {"content", "candidate"}
     /\ (server.reply.text = None \/ Blank(The(server.reply.text)))) =>
        /\ ~server.run.end.ok
        /\ Category(The(server.run.end.value)) # "GenerationFailed"

\* C25: every error thrown inside continueWriting leaves it as one Error whose
\* kind is decided on the message of the underlying error: "API key" or "API_KEY"
\* gives MissingCredential, else "quota" gives QuotaExceeded, else "rate limit"
\* gives RateLimited, else GenerationFailed with the underlying message; a thrown
\* value that is not an Error gives GenerationFailed with "Unknown error".
C25_Classification ==
    (HasReturned /\ ~server.run.end.ok) =>
        LET under == Tried(server.text, CalledProvider, server.env, server.reply).end.value
            thrown == server.run.end.value
        IN  /\ thrown # None
            /\ Category(The(thrown)) # "none"
            /\ under = None => The(thrown) = <<"AI generation failed: Unknown error">>
            /\ under # None =>
                  IF Includes(The(under), "API key") \/ Includes(The(under), "API_KEY")
                  THEN Category(The(thrown)) = "MissingCredential"
                  ELSE IF Includes(The(under), "quota")
                  THEN Category(The(thrown)) = "QuotaExceeded"
                  ELSE IF Includes(The(under), "rate limit")
                  THEN Category(The(thrown)) = "RateLimited"
                  ELSE The(thrown) = <<"AI generation failed: ">> \o The(under)

C25_Witness ==
    /\ HasReturned
    /\ server.reply = Throws(Some(<<"API key", " over ", "quota">>))
    /\ server.provider = Some("openai")
    /\ ~server.run.end.ok
    /\ server.run.end.network = 1
    /\ Category(The(server.run.end.value)) = "MissingCredential"

\* the calls that settle in a step
SettledIn(before, after) ==
    {b \in DOMAIN before.calls : Calls(after, b) < Calls(before, b)}

\* one reply of each shape that the generate functions tell apart
ReplyShapes ==
    {Content(None), Content(Some(<<>>)), Content(Some(<<" ">>)), Content(Some(<<"a">>)),
     Candidate(None), Candidate(Some(<<"a">>)),
     Throws(None), Throws(Some(<<"fetch failed">>))}

C29_InsertOnlyAccepted ==
    [][lastOp'.op = "insertText" =>
          \A b \in SettledIn(wire, wire') : b.accepted = Some(TRUE)]_vars

\* C30: right after the insertion the document is the text sent in the call that
\* returned, followed by the continuation.
C30_InsertAfterSentText ==
    [][lastOp'.op = "insertText" =>
          \A b \in SettledIn(wire, wire') :
              \E c \in Continuations : c # <<>> /\ doc' = b.body.text \o c]_vars

\* readings of Date.now() and continuations an event can carry, beyond the ones
\* the runs deliver
Times == {1, 2}
Datas == {<<>>, <<"a">>, <<"a", "a">>}

AnyEvent ==
    EditorEvent
    \cup {AiSuccess(d, t) : d \in Datas, t \in Times}
    \cup {AiError(m, t) : m \in RequestErrors, t \in Times}
    \cup {After5000}

Completes(event) == event.type \in {"AI_SUCCESS", "AI_ERROR"} /\ value = "loadingAI"

\* C27: lastRequestTime is null when the machine is created; an AI_SUCCESS or
\* AI_ERROR taken in loadingAI sets it to the time of that event, every other
\* event (and either of the two outside loadingAI) leaves it as it is; once set
\* it is never null again.
C27_LastRequestTime ==
    /\ [](lastOp = Op("createMachine") => context.lastRequestTime = None)
    /\ [](\A e \in AnyEvent :
            Transition(Snapshot, e).context.lastRequestTime
                = IF Completes(e) THEN Some(e.now) ELSE context.lastRequestTime)
    /\ [][context'.lastRequestTime # context.lastRequestTime =>
              /\ lastOp'.op \in {"AI_SUCCESS", "AI_ERROR"}
              /\ value = "loadingAI"]_vars
    /\ [][context.lastRequestTime # None => context'.lastRequestTime # None]_vars

C27_Witness ==
    /\ lastOp = Op("AI_ERROR")
    /\ value = "error"
    /\ context.lastRequestTime = Some(1)
    /\ context.aiGeneratedText = <<"a">>

\* C28: aiGeneratedText changes only when an AI_SUCCESS is taken in loadingAI,
\* which replaces it by the continuation of the event; every other event of the
\* machine and every other handler of the page leaves it as it is.
C28_GeneratedTextFrame ==
    /\ [](\A e \in AnyEvent :
            Transition(Snapshot, e).context.aiGeneratedText
                = IF e.type = "AI_SUCCESS" /\ value = "loadingAI" THEN e.data
                  ELSE context.aiGeneratedText)
    /\ [][context'.aiGeneratedText # context.aiGeneratedText =>
              /\ lastOp'.op = "insertText"
              /\ value = "loadingAI"
              /\ value' = "idle"]_vars

C28_Witness ==
    /\ lastOp.op = "catch"
    /\ value = "error"
    /\ context.aiGeneratedText = <<"a">>
    /\ context.error # None

\* a valid non-empty list of drafts under STORAGE_KEY
ValidDrafts(stored) ==
    stored.tag = "array" /\ stored.items # <<>> /\ AllStrings(stored.items)

\* C31: while the page mounts (load effect, persist effect, re-render), a valid
\* non-empty list found under STORAGE_KEY stays under STORAGE_KEY as it is.
C31_DraftsKeptAtStart ==
    [][(mounted # "ready" /\ ValidDrafts(localStorage)) => localStorage' = localStorage]_vars

\* the events handled at the root of the machine
GlobalTypes ==
    {"UPDATE_CONTENT", "SAVE_DOCUMENT", "HYDRATE_SAVED", "SWITCH_AI_PROVIDER",
     "DELETE_DOCUMENT"}

\* C32: UPDATE_CONTENT, SAVE_DOCUMENT, HYDRATE_SAVED, SWITCH_AI_PROVIDER and
\* DELETE_DOCUMENT leave the state of the machine as it is; delivered in error they
\* leave the delayed event scheduled on entry as it is, so that event stays
\* scheduled as long as the machine is in error, and the machine leaves error.
C32_GlobalEventsKeepTimer ==
    /\ [](\A e \in EditorEvent :
            e.type \in GlobalTypes => Transition(Snapshot, e).value = value)
    /\ [][lastOp'.op \in GlobalTypes => (value' = value /\ armed' = armed)]_vars
    /\ [][(value = "error" /\ value' = "error") => (armed' = armed /\ armed # {})]_vars
    /\ (value = "error") ~> (value # "error")

C32_Witness ==
    /\ lastOp = Op("UPDATE_CONTENT")
    /\ value = "error"
    /\ armed = {"this"}
    /\ context.editorContent = <<"a">>
    /\ context.savedDocuments # <<>>

\* the events that have a transition only in one state
OutOfState(event) ==
    \/ event.type \in {"AI_SUCCESS", "AI_ERROR"} /\ value \in {"idle", "error"}
    \/ event.type = "CLEAR_ERROR" /\ value \in {"idle", "loadingAI"}

\* C33: AI_SUCCESS and AI_ERROR in idle or error, and CLEAR_ERROR in idle or
\* loadingAI, leave the state, every context field and the scheduled delayed
\* event as they are.
C33_OutOfStateIgnored ==
    /\ [](\A e \in AnyEvent : OutOfState(e) => Transition(Snapshot, e) = Snapshot)
    /\ [][((lastOp'.op \in {"AI_SUCCESS", "AI_ERROR"} /\ value \in {"idle", "error"})
           \/ (lastOp'.op = "CLEAR_ERROR" /\ value \in {"idle", "loadingAI"})) =>
              (value' = value /\ context' = context /\ armed' = armed)]_vars

C33_Witness ==
    /\ lastOp = Op("AI_SUCCESS")
    /\ value = "error"
    /\ context.error # None
    /\ context.aiGeneratedText = <<>>
    /\ context.lastRequestTime = Some(1)

\* indexes a DELETE_DOCUMENT can carry
Indexes == (-2)..(MaxDocs + 1)

\* C34: DELETE_DOCUMENT with an index that is no position of savedDocuments
\* leaves the state and the whole context as they are; with a position of
\* savedDocuments the list gets shorter by one and nothing else changes.
C34_DeleteOutOfRange ==
    /\ [](\A i \in Indexes :
            LET next == Transition(Snapshot, DeleteDocument(i))
                docs == context.savedDocuments
            IN  IF i \in ValidIndex(docs)
                THEN /\ Len(next.context.savedDocuments) = Len(docs) - 1
                     /\ next = Snap(value, [context EXCEPT
                                                !.savedDocuments = next.context.savedDocuments])
                ELSE next = Snapshot)
    /\ [][lastOp'.op = "DELETE_DOCUMENT" =>
              /\ value' = value
              /\ armed' = armed
              /\ \/ context' = context
                 \/ /\ Len(context'.savedDocuments) = Len(context.savedDocuments) - 1
                    /\ context' = [context EXCEPT !.savedDocuments = context'.savedDocuments]]_vars

C34_Witness ==
    /\ lastOp = Op("DELETE_DOCUMENT")
    /\ Len(context.savedDocuments) = MaxDocs
    /\ value = "loadingAI"

\* C35: after every operation of the page (typing, insertion of a continuation,
\* opening a session, clear, save as new, save over the opened session, and the
\* ones that do not touch the document) context.editorContent is the text content
\* of the document.
C35_MirrorFollowsSurface == context.editorContent = GetContent

C35_Witness ==
    /\ lastOp = Op("insertText")
    /\ GetContent = <<"a", "a">>
    /\ context.editorContent = <<"a", "a">>
    /\ context.aiGeneratedText = <<"a">>
    /\ value = "idle"

\* C36: continueWriting never returns the empty text, and neither does the route
\* answer 200 with an empty continuation; the page handles a response without
\* continuation as a failure (AI_ERROR, document untouched), so an insertion makes
\* the document longer and the text the machine keeps from AI_SUCCESS is never
\* empty.
C36_SuccessCarriesText ==
    /\ [](lastOp = Op("createMachine") =>
            \A text \in Typed, provider \in Providers, env \in SUBSET EnvKeys :
                \A reply \in RepliesTo(provider) :
                    LET run == continueWriting(text, provider, env, reply)
                        answer == PostContinueWriting([text |-> text, provider |-> provider],
                                                      env, reply)
                    IN  /\ run.end.ok => run.end.value # <<>>
                        /\ answer.status = 200 => answer.json.continuation # <<>>)
    /\ [][lastOp'.op = "noContinuation" =>
              /\ doc' = doc
              /\ context'.aiGeneratedText = context.aiGeneratedText
              /\ value' # "idle" \/ value = "idle"
              /\ value = "loadingAI" => (value' = "error" /\ context'.error # None)]_vars
    /\ [][lastOp'.op = "insertText" => Len(doc') > Len(doc)]_vars
    /\ [][context'.aiGeneratedText # context.aiGeneratedText =>
              context'.aiGeneratedText # <<>>]_vars

C36_Witness ==
    /\ lastOp = Op("noContinuation")
    /\ value = "error"
    /\ context.error = Some("No continuation received from AI")
    /\ GetContent = <<"a">>
    /\ context.aiGeneratedText = <<>>

\* C37: the route answers a request once: 400 "Invalid request", with no generate
\* function invoked and no vendor call, when the body has no text, an empty text
\* or a provider other than gemini, openai, mistral; else 200 with the
\* continuation when continueWriting returns, and 500 with error "AI generation
\* failed" and the message of the error when continueWriting throws.
C37_ThreeOutcomes ==
    server.pc = "responded" =>
        LET body == server.body
            answer == server.answers[1]
            invalid == \/ body.text \in {<<>>, NoText}
                       \/ (body.provider # None /\ The(body.provider) \notin AIProvider)
            run == continueWriting(body.text, None, server.env, server.reply)
        IN  /\ Len(server.answers) = 1
            /\ answer.status \in {400, 200, 500}
            /\ invalid =>
                  /\ answer = [status |-> 400, json |-> [error |-> "Invalid request"]]
                  /\ server.response.adapters = <<>>
                  /\ server.response.network = 0
            /\ (~invalid /\ run.end.ok) =>
                  answer = [status |-> 200, json |-> [continuation |-> run.end.value]]
            /\ (~invalid /\ ~run.end.ok) =>
                  answer = [status |-> 500,
                            json |-> [error |-> "AI generation failed",
                                      message |-> The(run.end.value)]]

C37_Witness ==
    /\ server.pc = "responded"
    /\ server.body = [text |-> <<"a">>, provider |-> Some("claude")]
    /\ server.env = EnvKeys
    /\ server.reply = Content(Some(<<"a">>))
    /\ server.answers[1].status = 400

====
